---------------------------- MODULE Spec2Model ----------------------------
(***************************************************************************)
(* SilverNonStop audit backend (src/main.py): the event ingestion and      *)
(* deduplication engine, the resolve operation and the diagnostic          *)
(* aggregation, as a state machine over the silvernostop_audit_log table.  *)
(*                                                                         *)
(* Every handler is an asyncio coroutine: it runs without interruption     *)
(* between two awaits, and each awaited store call (connect, fetchrow,     *)
(* execute, fetchval, close) is a point where other requests' handlers     *)
(* may run.  Each statement runs in its own transaction (asyncpg           *)
(* auto-commit: the handlers open none), so a statement is atomic and      *)
(* nothing spans two statements.  Any awaited store call may raise; the    *)
(* handlers turn every exception into an HTTP 500.                         *)
(*                                                                         *)
(* An action is one statement on the table together with the handler's     *)
(* steps around it that touch only the handler's own connection and        *)
(* locals: the arrival of the request and connect() go with the first      *)
(* statement, close() and the response with the last.  The outcomes in     *)
(* which one of those steps raises (connect fails, the statement fails,    *)
(* close fails) are the ...Falla action beside each action.                *)
(***************************************************************************)
EXTENDS Integers, Sequences, FiniteSets, TLC

(***************************************************************************)
(* Bounds of the model.                                                    *)
(***************************************************************************)
\* requests handled at the same time by the event loop
NumProcs == 2
\* requests received in one behaviour
MaxCalls == 3

Procs == 1..NumProcs

(***************************************************************************)
(* Values.  An Optional[str] is the empty sequence (None) or a             *)
(* one-element sequence holding the string.                                *)
(***************************************************************************)
None == <<>>
Some(s) == <<s>>

\* Python truthiness of an Optional[str]: None and "" are falsy.
Truthy(o) == o # None /\ o[1] # ""

\* f-string / str() formatting of an Optional[str]: None prints as "None".
str(o) == IF o = None THEN "None" ELSE o[1]

(***************************************************************************)
(* Auxiliary functions of main.py.                                         *)
(***************************************************************************)
tablas_validas ==
  { "Sistema_General", "Campo_origen_despivotar", "Talento6X_etapas",
    "T6X_etapas_FEM", "Config_FEM", "T6X_etapas_etiquetas", "Mapa_Valor" }

\* a variant without the fallback, which C10 must tell from the original
validar_tabla_existe_sin_fallback(nombre_tabla) == nombre_tabla

\* validar_tabla_existe: the name itself when known, else "Sistema_General".
validar_tabla_existe(nombre_tabla) ==
  IF nombre_tabla \in tablas_validas THEN nombre_tabla ELSE "Sistema_General"

\* a variant that also reads the description, which C7 must tell from the
\* original
data_string_con_descripcion(evento) ==
  evento.tabla_origen \o "_" \o evento.tipo_evento \o "_"
    \o str(evento.campo_afectado) \o "_" \o str(evento.record_id)
    \o "_" \o evento.descripcion

\* The string generar_hash_evento hashes: the four key fields of the RAW
\* event (evento.tabla_origen, not the validated table) joined by "_".
data_string(evento) ==
  evento.tabla_origen \o "_" \o evento.tipo_evento \o "_"
    \o str(evento.campo_afectado) \o "_" \o str(evento.record_id)

\* hashlib.md5(s.encode()).hexdigest()[:16].  The digests of the key strings
\* of the model's events are the real ones; any other string keeps an
\* uninterpreted digest of its own (truncation collisions are not modelled).
md5_hexdigest_16(s) ==
  CASE s = "Config_FEM_FEM_Inconsistente_Inconsistente_Sector_None" -> "f4b3677303c6a977"
    [] s = "Config_FEM_FEM_Inconsistente_Sector_None" -> "15f32462b4ee3072"
    [] s = "Config_FEM_FEM_Sector_None" -> "015325f9170e7034"
    [] s = "Sistema_General_FEM_Inconsistente_Inconsistente_Sector_None" -> "764661b6beca8a0c"
    [] s = "Sistema_General_FEM_Inconsistente_Sector_None" -> "998808edc967acf9"
    [] s = "Sistema_General_FEM_Sector_None" -> "f013675bd369c4d2"
    [] s = "Tabla_X_FEM_Inconsistente_Inconsistente_Sector_None" -> "801fa74804598c85"
    [] s = "Tabla_X_FEM_Inconsistente_Sector_None" -> "01e232190727a3f2"
    [] s = "Tabla_X_FEM_Sector_None" -> "46d9a338624f6a90"
    [] OTHER -> "md5:" \o s

generar_hash_evento(evento) == md5_hexdigest_16(data_string(evento))

mapeo_tabla ==
  ("Campo_origen_despivotar" :> "Despivotado_SilverNonStop")
  @@ ("Config_FEM" :> "Configuracion_FEM")
  @@ ("T6X_etapas_FEM" :> "Configuracion_FEM")
  @@ ("Talento6X_etapas" :> "Vida_Laboral_Processing")
  @@ ("T6X_etapas_etiquetas" :> "Mapa_Valor_SilverNonStop")
  @@ ("Mapa_Valor" :> "Narrativa_Generation_Silver")

mapeo_tipo ==
  ("FEM_Inconsistente" :> "Configuracion_FEM")
  @@ ("Despivotado_Error" :> "Despivotado_SilverNonStop")
  @@ ("Narrativa_Error" :> "Narrativa_Generation_Silver")
  @@ ("Sincronizacion_Fallida" :> "Sincronizacion_SilverNonStop")

\* dict.get(k): None when the key is absent.
dict_get(d, k) == IF k \in DOMAIN d THEN Some(d[k]) ELSE None

\* a variant that looks the table up first, which C11 must tell from the
\* original
determinar_categoria_automatica_tabla_primero(tabla_origen, tipo_evento) ==
  IF Truthy(dict_get(mapeo_tabla, tabla_origen))
    THEN dict_get(mapeo_tabla, tabla_origen)[1]
    ELSE IF Truthy(dict_get(mapeo_tipo, tipo_evento))
           THEN dict_get(mapeo_tipo, tipo_evento)[1]
           ELSE "Integridad_Datos"

\* mapeo_tipo.get(tipo) or mapeo_tabla.get(tabla) or "Integridad_Datos"
determinar_categoria_automatica(tabla_origen, tipo_evento) ==
  IF Truthy(dict_get(mapeo_tipo, tipo_evento))
    THEN dict_get(mapeo_tipo, tipo_evento)[1]
    ELSE IF Truthy(dict_get(mapeo_tabla, tabla_origen))
           THEN dict_get(mapeo_tabla, tabla_origen)[1]
           ELSE "Integridad_Datos"

\* evento.categoria_error or categoria_automatica
categoria_asignada(evento, tabla_validada) ==
  IF Truthy(evento.categoria_error)
    THEN evento.categoria_error[1]
    ELSE determinar_categoria_automatica(tabla_validada, evento.tipo_evento)

\* json.dumps of a context dictionary (a set of <<key, value>> pairs of
\* strings; the model's events carry at most one pair).
json_dumps(d) ==
  IF d = {} THEN "{}"
  ELSE LET kv == CHOOSE x \in d : TRUE
       IN  "{\"" \o kv[1] \o "\": \"" \o kv[2] \o "\"}"

(***************************************************************************)
(* Inputs: EventoAuditoriaBase values.                                     *)
(***************************************************************************)
\* the four fields generar_hash_evento reads
Claves ==
  [ tabla_origen : {"Config_FEM", "Sistema_General", "Tabla_X"},
    tipo_evento : {"FEM_Inconsistente", "FEM"},
    campo_afectado : {Some("Sector"), Some("Inconsistente_Sector")},
    record_id : {None, Some("None")} ]

\* the fields it does not read: the model's defaults, and a variant that
\* differs from them in every field
NoClaves ==
  { [ severidad |-> "MEDIA", descripcion |-> "x", datos_contexto |-> {},
      categoria_error |-> None, impacto_narrativa |-> "Sin_Impacto",
      accion_requerida |-> "Revisar manualmente" ],
    [ severidad |-> "CRITICA", descripcion |-> "y",
      datos_contexto |-> {<<"campo", "Sector">>},
      categoria_error |-> Some("Manual"),
      impacto_narrativa |-> "Bloquea_Generacion",
      accion_requerida |-> "Corregir inmediatamente" ] }

Evento(k, n) ==
  [ tabla_origen |-> k.tabla_origen, tipo_evento |-> k.tipo_evento,
    campo_afectado |-> k.campo_afectado, record_id |-> k.record_id,
    severidad |-> n.severidad, descripcion |-> n.descripcion,
    datos_contexto |-> n.datos_contexto, categoria_error |-> n.categoria_error,
    impacto_narrativa |-> n.impacto_narrativa,
    accion_requerida |-> n.accion_requerida ]

EventosTodos == { Evento(k, n) : k \in Claves, n \in NoClaves }

Clave(evento) ==
  [ tabla_origen |-> evento.tabla_origen, tipo_evento |-> evento.tipo_evento,
    campo_afectado |-> evento.campo_afectado, record_id |-> evento.record_id ]

\* The events submitted in the concurrent specification: the scenario of the
\* documentation (Config_FEM / FEM_Inconsistente / Sector) as reported by two
\* callers that differ in every other field, and a critical event of an
\* unknown table.
Eventos ==
  { e \in EventosTodos :
      \/ /\ e.tabla_origen = "Config_FEM" /\ e.tipo_evento = "FEM_Inconsistente"
         /\ e.campo_afectado = Some("Sector") /\ e.record_id = None
      \/ /\ e.tabla_origen = "Tabla_X" /\ e.tipo_evento = "FEM"
         /\ e.campo_afectado = Some("Sector") /\ e.record_id = None
         /\ e.severidad = "CRITICA" }

\* The workloads of the sequential specification: any one or two events.
Cargas == { {a, b} : a \in EventosTodos, b \in EventosTodos }

(***************************************************************************)
(* State.                                                                  *)
(***************************************************************************)
VARIABLES
  audit_log,       \* the rows of silvernostop_audit_log
  next_id,         \* the SERIAL sequence of its id column
  reloj,           \* NOW() of the next statement that writes
  conexion,        \* per request slot: the handler's connection
  alertas,         \* critical alerts: the lines written to the log, and
                   \*   the ones the log channel failed to write
  pc,              \* per request slot: the await its handler is at
  evento,          \* procesar_evento_auditoria: the event received
  tabla_validada,  \*   its local tabla_validada
  hash_datos,      \*   its local hash_datos
  existing,        \*   its local existing (None or the row fetched)
  evento_id,       \*   its local evento_id; resolver_evento's argument
  diag,            \* diagnostico_completo: the query results it holds so far
  handler,         \* the handler the slot runs
  resultado,       \* the response the handler ends with
  escrito,         \* history: the row as this call's own statement left it
  exitos,          \* history: the events ingested with a success response
  parciales,       \* history: the calls answered HTTP 500 after they wrote
  llamadas,        \* history: the requests received
  entradas,        \* the events the callers submit
  session_user,    \* request.session.get('user') of the browser's session
  ADMIN_EMAIL,     \* settings.ADMIN_EMAIL, read from the environment
  peticion,        \* history: the browser's last request and its response
  cambio           \* history: the last request that wrote session['user']

store_vars == <<audit_log, next_id, reloj>>
local_vars == <<evento, tabla_validada, hash_datos, existing, evento_id, diag>>
sesion_vars == <<session_user, ADMIN_EMAIL, peticion, cambio>>
vars ==
  <<audit_log, next_id, reloj, conexion, alertas, pc, evento,
    tabla_validada, hash_datos, existing, evento_id, diag, handler,
    resultado, escrito, exitos, parciales, llamadas, entradas, sesion_vars>>

SinEvento == [tabla_origen |-> ""]
SinResultado == [status |-> "ninguno"]
SinDiag == [consultas |-> 0]
SinAlertas == [escritas |-> 0, perdidas |-> 0]
Error500 == [status |-> "error", status_code |-> 500]

\* a bag as a function with a growing domain
Cuenta(bag, x) == IF x \in DOMAIN bag THEN bag[x] ELSE 0
Anotar(bag, x) == (x :> (Cuenta(bag, x) + 1)) @@ bag

RECURSIVE Suma(_, _)
Suma(bag, S) ==
  IF S = {} THEN 0
  ELSE LET x == CHOOSE y \in S : TRUE IN bag[x] + Suma(bag, S \ {x})

\* successful ingestions whose fingerprint is h
ExitosDeHash(h) ==
  Suma(exitos, { e \in DOMAIN exitos : generar_hash_evento(e) = h })

FilasConHash(h) == { r \in audit_log : r.hash_datos = h }

(***************************************************************************)
(* Rows and responses built by procesar_evento_auditoria.                  *)
(***************************************************************************)
\* INSERT INTO silvernostop_audit_log ... RETURNING id, with the column
\* defaults of CREATE TABLE for the columns the statement does not give.
fila_nueva(id, ev, tabla, hash, ahora) ==
  [ id |-> id,
    timestamp |-> ahora,
    tabla_origen |-> tabla,
    tipo_evento |-> ev.tipo_evento,
    severidad |-> ev.severidad,
    descripcion |-> ev.descripcion,
    campo_afectado |-> ev.campo_afectado,
    record_id |-> ev.record_id,
    datos_contexto |-> json_dumps(ev.datos_contexto),
    estado_resolucion |-> "Pendiente",
    accion_requerida |-> ev.accion_requerida,
    categoria_error |-> categoria_asignada(ev, tabla),
    impacto_narrativa |-> ev.impacto_narrativa,
    automatizacion_origen |-> "Railway_API",
    hash_datos |-> hash,
    arquitectura_version |-> ahora,
    es_recurrente |-> FALSE,
    contador_ocurrencias |-> 1,
    updated_at |-> ahora ]

\* a variant that leaves es_recurrente alone, which C6 must tell from the
\* original
fila_incrementada_sin_recurrente(r, ahora) ==
  [r EXCEPT !.contador_ocurrencias = @ + 1, !.updated_at = ahora]

\* a variant that reopens the row, which C14 must tell from the original
fila_incrementada_reabre(r, ahora) ==
  [r EXCEPT !.contador_ocurrencias = @ + 1, !.es_recurrente = TRUE,
            !.estado_resolucion = "Pendiente", !.updated_at = ahora]

\* UPDATE ... SET contador_ocurrencias = contador_ocurrencias + 1,
\*                es_recurrente = TRUE, updated_at = NOW()
fila_incrementada(r, ahora) ==
  [r EXCEPT !.contador_ocurrencias = @ + 1, !.es_recurrente = TRUE,
            !.updated_at = ahora]

\* a variant without the WHERE clause, which C2 must tell from the original
filas_existentes_cualquiera(log, hash) == log

\* SELECT id, contador_ocurrencias ... WHERE hash_datos = $1, first row:
\* the rows that may come first (the statement has no ORDER BY)
filas_existentes(log, hash) == { r \in log : r.hash_datos = hash }

\* a variant that returns the count as read, which C4 must tell from the
\* original
respuesta_duplicado_sin_sumar(fila) ==
  [ status |-> "duplicado_actualizado", evento_id |-> fila.id,
    contador_ocurrencias |-> fila.contador_ocurrencias,
    mensaje |-> "Evento duplicado, contador incrementado" ]

\* {"status": "duplicado_actualizado", "evento_id": existing['id'],
\*  "contador_ocurrencias": existing['contador_ocurrencias'] + 1}
respuesta_duplicado(fila) ==
  [ status |-> "duplicado_actualizado", evento_id |-> fila.id,
    contador_ocurrencias |-> fila.contador_ocurrencias + 1,
    mensaje |-> "Evento duplicado, contador incrementado" ]

\* if evento.severidad == "CRITICA": logger.warning(ALERTA CRITICA ...):
\* the number of alert lines the call writes
alerta_critica(ev) == IF ev.severidad = "CRITICA" THEN 1 ELSE 0

respuesta_creado(id, ev, tabla, hash) ==
  [ status |-> "success", evento_id |-> id,
    mensaje |-> "Evento registrado para " \o tabla,
    categoria_asignada |-> categoria_asignada(ev, tabla),
    hash_datos |-> hash ]

(***************************************************************************)
(* procesar_evento_auditoria.                                              *)
(***************************************************************************)
\* A free slot takes the next request; the slots are interchangeable, so the
\* lowest free one takes it.
Libre(p) ==
  /\ pc[p] = "idle"
  /\ \A q \in Procs : q < p => pc[q] # "idle"
  /\ llamadas < MaxCalls

\* The handler ends with HTTP 500 (except Exception -> HTTPException).  No
\* error path closes the connection: it is left as con, which is "ninguna"
\* when connect() failed, "abierta" when a statement failed, and "cerrada"
\* when close() itself failed (asyncpg drops a connection it cannot close).
Falla(p, con) ==
  /\ pc' = [pc EXCEPT ![p] = "done"]
  /\ resultado' = [resultado EXCEPT ![p] = Error500]
  /\ conexion' = [conexion EXCEPT ![p] = con]

\* The handler ends with its response, the connection closed.
Responde(p, respuesta) ==
  /\ pc' = [pc EXCEPT ![p] = "done"]
  /\ resultado' = [resultado EXCEPT ![p] = respuesta]
  /\ conexion' = [conexion EXCEPT ![p] = "cerrada"]

\* The request arrives; get_db_connection; validar_tabla_existe;
\* generar_hash_evento; conn.fetchrow(SELECT id, contador_ocurrencias ...
\* WHERE hash_datos = $1); then the UPDATE or the INSERT is sent.
ProcesarEvento(p) ==
  /\ Libre(p)
  /\ llamadas' = llamadas + 1
  /\ handler' = [handler EXCEPT ![p] = "procesar_evento_auditoria"]
  /\ conexion' = [conexion EXCEPT ![p] = "abierta"]
  /\ \E e \in entradas :
       LET hash == generar_hash_evento(e)
       IN  /\ evento' = [evento EXCEPT ![p] = e]
           /\ tabla_validada' =
                [tabla_validada EXCEPT ![p] = validar_tabla_existe(e.tabla_origen)]
           /\ hash_datos' = [hash_datos EXCEPT ![p] = hash]
           /\ \/ /\ filas_existentes(audit_log, hash) = {}
                 /\ existing' = [existing EXCEPT ![p] = None]
                 /\ pc' = [pc EXCEPT ![p] = "fetchval_insert"]
              \/ /\ \E r \in filas_existentes(audit_log, hash) :
                      existing' =
                        [existing EXCEPT ![p] =
                           Some([id |-> r.id,
                                 contador_ocurrencias |-> r.contador_ocurrencias])]
                 /\ pc' = [pc EXCEPT ![p] = "execute_update"]
  /\ UNCHANGED <<store_vars, alertas, evento_id, diag, resultado, escrito,
                 exitos, parciales, entradas,
                 sesion_vars>>

\* get_db_connection raises, or it returns and conn.fetchrow raises
ProcesarEventoFalla(p) ==
  /\ Libre(p)
  /\ llamadas' = llamadas + 1
  /\ handler' = [handler EXCEPT ![p] = "procesar_evento_auditoria"]
  /\ \E e \in entradas :
       /\ evento' = [evento EXCEPT ![p] = e]
       /\ \/ /\ Falla(p, "ninguna")
             /\ UNCHANGED <<tabla_validada, hash_datos>>
          \/ /\ Falla(p, "abierta")
             /\ tabla_validada' =
                  [tabla_validada EXCEPT ![p] = validar_tabla_existe(e.tabla_origen)]
             /\ hash_datos' = [hash_datos EXCEPT ![p] = generar_hash_evento(e)]
  /\ UNCHANGED <<store_vars, alertas, existing, evento_id, diag, escrito,
                 exitos, parciales, entradas,
                 sesion_vars>>

\* the UPDATE of the duplicate branch, on the table
SentenciaUpdate(p) ==
  /\ audit_log' =
       { IF r.id = existing[p][1].id THEN fila_incrementada(r, reloj) ELSE r :
           r \in audit_log }
  /\ reloj' = reloj + 1
  /\ escrito' =
       [escrito EXCEPT ![p] =
          { fila_incrementada(r, reloj) :
              r \in { x \in audit_log : x.id = existing[p][1].id } }]
  /\ UNCHANGED next_id

\* conn.execute(UPDATE ... WHERE id = existing['id']); conn.close(); the
\* "duplicado_actualizado" response
ProcesarUpdate(p) ==
  /\ pc[p] = "execute_update"
  /\ SentenciaUpdate(p)
  /\ Responde(p, respuesta_duplicado(existing[p][1]))
  /\ exitos' = Anotar(exitos, evento[p])
  /\ UNCHANGED <<alertas, local_vars, handler, parciales, llamadas, entradas,
                 sesion_vars>>

\* conn.execute raises, or it returns and conn.close raises
ProcesarUpdateFalla(p) ==
  /\ pc[p] = "execute_update"
  /\ \/ /\ Falla(p, "abierta")
        /\ UNCHANGED <<store_vars, escrito, parciales>>
     \/ /\ SentenciaUpdate(p)
        /\ Falla(p, "cerrada")
        /\ parciales' = parciales + 1
  /\ UNCHANGED <<alertas, local_vars, handler, exitos, llamadas, entradas,
                 sesion_vars>>

\* the INSERT of the new-event branch, on the table
SentenciaInsert(p) ==
  /\ LET fila == fila_nueva(next_id, evento[p], tabla_validada[p],
                            hash_datos[p], reloj)
     IN  /\ audit_log' = audit_log \cup {fila}
         /\ escrito' = [escrito EXCEPT ![p] = {fila}]
  /\ evento_id' = [evento_id EXCEPT ![p] = next_id]
  /\ next_id' = next_id + 1
  /\ reloj' = reloj + 1

\* conn.fetchval(INSERT INTO silvernostop_audit_log ... RETURNING id);
\* conn.close(); the critical alert; the "success" response
ProcesarInsert(p) ==
  /\ pc[p] = "fetchval_insert"
  /\ SentenciaInsert(p)
  /\ alertas' = [alertas EXCEPT !.escritas = @ + alerta_critica(evento[p])]
  /\ Responde(p, respuesta_creado(next_id, evento[p], tabla_validada[p],
                                  hash_datos[p]))
  /\ exitos' = Anotar(exitos, evento[p])
  /\ UNCHANGED <<evento, tabla_validada, hash_datos, existing, diag, handler,
                 parciales, llamadas, entradas,
                 sesion_vars>>

\* conn.fetchval raises, or it returns and conn.close raises
ProcesarInsertFalla(p) ==
  /\ pc[p] = "fetchval_insert"
  /\ \/ /\ Falla(p, "abierta")
        /\ UNCHANGED <<store_vars, evento_id, escrito, parciales>>
     \/ /\ SentenciaInsert(p)
        /\ Falla(p, "cerrada")
        /\ parciales' = parciales + 1
  /\ UNCHANGED <<alertas, evento, tabla_validada, hash_datos, existing, diag,
                 handler, exitos, llamadas, entradas,
                 sesion_vars>>

\* a variant in which the failure of the log channel reaches the except
\* clause of the handler, which C17 must tell from the original
ProcesarInsertAlertaFalla_propagada(p) ==
  /\ pc[p] = "fetchval_insert"
  /\ evento[p].severidad = "CRITICA"
  /\ SentenciaInsert(p)
  /\ alertas' = [alertas EXCEPT !.perdidas = @ + 1]
  /\ Falla(p, "cerrada")
  /\ parciales' = parciales + 1
  /\ UNCHANGED <<evento, tabla_validada, hash_datos, existing, diag, handler,
                 exitos, llamadas, entradas,
                 sesion_vars>>

\* conn.fetchval and conn.close return, and the handler of the logger fails
\* to write the alert line: logging.Handler.emit catches the error and
\* reports it through handleError, logger.warning returns, and the handler
\* goes on to its "success" response
ProcesarInsertAlertaFalla(p) ==
  /\ pc[p] = "fetchval_insert"
  /\ evento[p].severidad = "CRITICA"
  /\ SentenciaInsert(p)
  /\ alertas' = [alertas EXCEPT !.perdidas = @ + 1]
  /\ Responde(p, respuesta_creado(next_id, evento[p], tabla_validada[p],
                                  hash_datos[p]))
  /\ exitos' = Anotar(exitos, evento[p])
  /\ UNCHANGED <<evento, tabla_validada, hash_datos, existing, diag, handler,
                 parciales, llamadas, entradas,
                 sesion_vars>>

(***************************************************************************)
(* resolver_evento.                                                        *)
(***************************************************************************)
\* a variant that also resets the count of the row, which C20 must tell from
\* the original
fila_resuelta_y_recontada(r, ahora) ==
  [r EXCEPT !.estado_resolucion = "Resuelto", !.updated_at = ahora,
            !.contador_ocurrencias = 1, !.es_recurrente = FALSE]

\* UPDATE ... SET estado_resolucion = 'Resuelto', updated_at = NOW()
fila_resuelta(r, ahora) ==
  [r EXCEPT !.estado_resolucion = "Resuelto", !.updated_at = ahora]

\* {"status": "success", "mensaje": ...}; the mensaje names evento_id
respuesta_resuelto(id) == [status |-> "success", evento_id |-> id]

\* the UPDATE ... WHERE id = $1, on the table: the row of that id, if there
\* is one, is updated
SentenciaResolver(p, id) ==
  LET filas == { r \in audit_log : r.id = id }
  IN  /\ audit_log' =
           { IF r \in filas THEN fila_resuelta(r, reloj) ELSE r : r \in audit_log }
      /\ escrito' = [escrito EXCEPT ![p] = { fila_resuelta(r, reloj) : r \in filas }]
      /\ reloj' = IF filas = {} THEN reloj ELSE reloj + 1
      /\ UNCHANGED next_id

\* The request arrives with an id (one a row may have, or the next one, which
\* none has yet); get_db_connection; conn.execute(UPDATE ...); conn.close();
\* the success response, whatever the UPDATE matched.
ResolverEvento(p) ==
  /\ Libre(p)
  /\ llamadas' = llamadas + 1
  /\ handler' = [handler EXCEPT ![p] = "resolver_evento"]
  /\ \E id \in 1..next_id :
       /\ evento_id' = [evento_id EXCEPT ![p] = id]
       /\ SentenciaResolver(p, id)
       /\ Responde(p, respuesta_resuelto(id))
  /\ UNCHANGED <<alertas, evento, tabla_validada, hash_datos, existing, diag,
                 exitos, parciales, entradas,
                 sesion_vars>>

\* get_db_connection raises, or conn.execute raises, or conn.close raises
ResolverEventoFalla(p) ==
  /\ Libre(p)
  /\ llamadas' = llamadas + 1
  /\ handler' = [handler EXCEPT ![p] = "resolver_evento"]
  /\ \E id \in 1..next_id :
       /\ evento_id' = [evento_id EXCEPT ![p] = id]
       /\ \/ /\ Falla(p, "ninguna")
             /\ UNCHANGED <<store_vars, escrito, parciales>>
          \/ /\ Falla(p, "abierta")
             /\ UNCHANGED <<store_vars, escrito, parciales>>
          \/ /\ SentenciaResolver(p, id)
             /\ Falla(p, "cerrada")
             /\ parciales' =
                  IF \E r \in audit_log : r.id = id THEN parciales + 1
                  ELSE parciales
  /\ UNCHANGED <<alertas, evento, tabla_validada, hash_datos, existing, diag,
                 exitos, entradas,
                 sesion_vars>>

(***************************************************************************)
(* diagnostico_completo: five queries, each awaited, then the health state.*)
(***************************************************************************)
\* LIMIT of the recent-events query
LimiteRecientes == 10
\* ALTA events above which the system needs attention
UmbralAlta == 5

\* SELECT COUNT(*) FROM silvernostop_audit_log
total_eventos(log) == Cardinality(log)

\* SELECT severidad, COUNT(*) ... GROUP BY severidad, as a dict
eventos_por_severidad(log) ==
  [ s \in { r.severidad : r \in log } |->
      Cardinality({ r \in log : r.severidad = s }) ]

\* SELECT COUNT(*) ... WHERE severidad = 'CRITICA' AND estado_resolucion = 'Pendiente'
criticos_pendientes(log) ==
  Cardinality({ r \in log : r.severidad = "CRITICA"
                            /\ r.estado_resolucion = "Pendiente" })

\* SELECT DISTINCT tabla_origen ... (the ORDER BY of the list is not modelled)
tablas_monitoreadas(log) == { r.tabla_origen : r \in log }

\* the columns the recent-events query selects
columnas_recientes(r) ==
  [ timestamp |-> r.timestamp, tabla_origen |-> r.tabla_origen,
    tipo_evento |-> r.tipo_evento, severidad |-> r.severidad,
    descripcion |-> r.descripcion ]

\* a variant that lists the oldest rows first, which C22 must tell from the
\* original
RECURSIVE eventos_recientes_ascendente(_, _)
eventos_recientes_ascendente(log, n) ==
  IF log = {} \/ n = 0 THEN <<>>
  ELSE LET r == CHOOSE x \in log : \A y \in log : x.timestamp <= y.timestamp
       IN  <<columnas_recientes(r)>>
             \o eventos_recientes_ascendente(log \ {r}, n - 1)

\* ORDER BY timestamp DESC LIMIT n
RECURSIVE eventos_recientes(_, _)
eventos_recientes(log, n) ==
  IF log = {} \/ n = 0 THEN <<>>
  ELSE LET r == CHOOSE x \in log : \A y \in log : y.timestamp <= x.timestamp
       IN  <<columnas_recientes(r)>> \o eventos_recientes(log \ {r}, n - 1)

\* eventos_por_severidad.get(k, 0)
get_or_0(d, k) == IF k \in DOMAIN d THEN d[k] ELSE 0

\* a variant whose threshold is reached at UmbralAlta, which C15 must tell
\* from the original
estado_sistema_desde_umbral(n_criticos_pendientes, por_severidad) ==
  IF n_criticos_pendientes > 0 THEN "CRITICO"
  ELSE IF get_or_0(por_severidad, "ALTA") >= UmbralAlta THEN "ATENCION"
  ELSE "SALUDABLE"

\* estado_sistema = "SALUDABLE"; if criticos_pendientes > 0: "CRITICO";
\* elif eventos_por_severidad.get("ALTA", 0) > 5: "ATENCION"
estado_sistema(n_criticos_pendientes, por_severidad) ==
  IF n_criticos_pendientes > 0 THEN "CRITICO"
  ELSE IF get_or_0(por_severidad, "ALTA") > UmbralAlta THEN "ATENCION"
  ELSE "SALUDABLE"

respuesta_diagnostico(d) ==
  [ status |-> "diagnostico",
    estado_sistema |-> estado_sistema(d.criticos_pendientes, d.eventos_por_severidad),
    total_eventos |-> d.total_eventos,
    eventos_por_severidad |-> d.eventos_por_severidad,
    criticos_pendientes |-> d.criticos_pendientes,
    tablas_monitoreadas |-> d.tablas_monitoreadas,
    eventos_recientes |-> d.eventos_recientes ]

\* a variant in which the diagnostic purges the resolved rows, which C19
\* must tell from the original
DiagMarco_purga_resueltos ==
  /\ audit_log' = { r \in audit_log : r.estado_resolucion # "Resuelto" }
  /\ UNCHANGED <<next_id, reloj, alertas, evento, tabla_validada, hash_datos,
                 existing, evento_id, escrito, exitos, parciales, entradas,
                 sesion_vars>>

\* what no query of the diagnostic changes
DiagMarco ==
  UNCHANGED <<store_vars, alertas, evento, tabla_validada, hash_datos,
              existing, evento_id, escrito, exitos, parciales, entradas,
                 sesion_vars>>

\* The request arrives; get_db_connection; the COUNT(*) query.
DiagnosticoCompleto(p) ==
  /\ Libre(p)
  /\ llamadas' = llamadas + 1
  /\ handler' = [handler EXCEPT ![p] = "diagnostico_completo"]
  /\ conexion' = [conexion EXCEPT ![p] = "abierta"]
  /\ diag' = [diag EXCEPT ![p] =
                [consultas |-> 1, total_eventos |-> total_eventos(audit_log)]]
  /\ pc' = [pc EXCEPT ![p] = "diag_severidad"]
  /\ UNCHANGED resultado
  /\ DiagMarco

\* get_db_connection raises, or it returns and the COUNT(*) query raises
DiagnosticoCompletoFalla(p) ==
  /\ Libre(p)
  /\ llamadas' = llamadas + 1
  /\ handler' = [handler EXCEPT ![p] = "diagnostico_completo"]
  /\ \/ Falla(p, "ninguna")
     \/ Falla(p, "abierta")
  /\ UNCHANGED diag
  /\ DiagMarco

\* the GROUP BY severidad query
DiagSeveridad(p) ==
  /\ pc[p] = "diag_severidad"
  /\ diag' = [diag EXCEPT ![p] =
                [consultas |-> 2, total_eventos |-> diag[p].total_eventos,
                 eventos_por_severidad |-> eventos_por_severidad(audit_log)]]
  /\ pc' = [pc EXCEPT ![p] = "diag_criticos"]
  /\ UNCHANGED <<resultado, conexion, handler, llamadas>>
  /\ DiagMarco

\* the pending-critical COUNT(*) query
DiagCriticos(p) ==
  /\ pc[p] = "diag_criticos"
  /\ diag' = [diag EXCEPT ![p] =
                [consultas |-> 3, total_eventos |-> diag[p].total_eventos,
                 eventos_por_severidad |-> diag[p].eventos_por_severidad,
                 criticos_pendientes |-> criticos_pendientes(audit_log)]]
  /\ pc' = [pc EXCEPT ![p] = "diag_tablas"]
  /\ UNCHANGED <<resultado, conexion, handler, llamadas>>
  /\ DiagMarco

\* the DISTINCT tabla_origen query
DiagTablas(p) ==
  /\ pc[p] = "diag_tablas"
  /\ diag' = [diag EXCEPT ![p] =
                [consultas |-> 4, total_eventos |-> diag[p].total_eventos,
                 eventos_por_severidad |-> diag[p].eventos_por_severidad,
                 criticos_pendientes |-> diag[p].criticos_pendientes,
                 tablas_monitoreadas |-> tablas_monitoreadas(audit_log)]]
  /\ pc' = [pc EXCEPT ![p] = "diag_recientes"]
  /\ UNCHANGED <<resultado, conexion, handler, llamadas>>
  /\ DiagMarco

\* the recent-events query; estado_sistema; conn.close(); the response
DiagRecientes(p) ==
  /\ pc[p] = "diag_recientes"
  /\ diag' = [diag EXCEPT ![p] =
                [consultas |-> 5, total_eventos |-> diag[p].total_eventos,
                 eventos_por_severidad |-> diag[p].eventos_por_severidad,
                 criticos_pendientes |-> diag[p].criticos_pendientes,
                 tablas_monitoreadas |-> diag[p].tablas_monitoreadas,
                 eventos_recientes |->
                   eventos_recientes(audit_log, LimiteRecientes)]]
  /\ Responde(p, respuesta_diagnostico(diag'[p]))
  /\ UNCHANGED <<handler, llamadas>>
  /\ DiagMarco

\* one of the four later queries raises, or conn.close raises after the last
DiagConsultaFalla(p) ==
  /\ \/ /\ pc[p] \in {"diag_severidad", "diag_criticos", "diag_tablas",
                      "diag_recientes"}
        /\ Falla(p, "abierta")
     \/ /\ pc[p] = "diag_recientes"
        /\ Falla(p, "cerrada")
  /\ UNCHANGED <<diag, handler, llamadas>>
  /\ DiagMarco

\* The caller has the response and the handler's frame is gone (asyncpg
\* terminates a connection nothing refers to); the slot is free again.
Responder(p) ==
  /\ pc[p] = "done"
  /\ pc' = [pc EXCEPT ![p] = "idle"]
  /\ conexion' = [conexion EXCEPT ![p] = "ninguna"]
  /\ evento' = [evento EXCEPT ![p] = SinEvento]
  /\ tabla_validada' = [tabla_validada EXCEPT ![p] = ""]
  /\ hash_datos' = [hash_datos EXCEPT ![p] = ""]
  /\ existing' = [existing EXCEPT ![p] = None]
  /\ evento_id' = [evento_id EXCEPT ![p] = 0]
  /\ diag' = [diag EXCEPT ![p] = SinDiag]
  /\ handler' = [handler EXCEPT ![p] = ""]
  /\ resultado' = [resultado EXCEPT ![p] = SinResultado]
  /\ escrito' = [escrito EXCEPT ![p] = {}]
  /\ UNCHANGED <<store_vars, alertas, exitos, parciales, llamadas, entradas,
                 sesion_vars>>

(***************************************************************************)
(* Sessions: the Google login and the dashboards of main.py and of         *)
(* routes/, and the resolver of routes/audit.py.  The session is the       *)
(* signed cookie of SessionMiddleware, one browser's; its requests are     *)
(* made one after another.                                                 *)
(***************************************************************************)
\* EMAIL_AUTORIZADO of auth_callback in main.py
EMAIL_AUTORIZADO == "escobar.enrique@gmail.com"
\* os.getenv("ADMIN_EMAIL", "tu-email@gmail.com") of Settings: its default
ADMIN_EMAIL_por_defecto == "tu-email@gmail.com"
\* the values of settings.ADMIN_EMAIL: the default, and the environment's
ValoresDeADMIN_EMAIL == {ADMIN_EMAIL_por_defecto, EMAIL_AUTORIZADO}

\* the accounts Google may authenticate
Emails == {EMAIL_AUTORIZADO, ADMIN_EMAIL_por_defecto, "otra@gmail.com"}

\* oauth.google.authorize_access_token(request): it raises, or it returns a
\* token whose 'userinfo' is missing or has the email of the account (the
\* scope is 'openid email profile')
Tokens ==
  {[falla |-> TRUE, userinfo |-> None]}
  \cup { [falla |-> FALSE, userinfo |-> u] :
           u \in {None} \cup { Some([email |-> e]) : e \in Emails } }

\* LIMIT of the dashboard query of main.py
LimiteDashboard == 50

SinPeticion == [handler |-> "ninguno"]

HTTPException(status_code) ==
  [status_code |-> status_code, location |-> "", plantilla |-> ""]
HTMLResponse(status_code) ==
  [status_code |-> status_code, location |-> "", plantilla |-> ""]
RedirectResponse(url) ==
  [status_code |-> 307, location |-> url, plantilla |-> ""]
TemplateResponse(plantilla, contexto) ==
  [status_code |-> 200, location |-> "", plantilla |-> plantilla,
   contexto |-> contexto]

\* auth_callback after the token exchange: the session user it leaves and
\* its response.  Only the last branch assigns request.session['user'].
auth_callback(user, token, autorizado, respuesta_de_fallo) ==
  IF token.falla
    THEN [user |-> user, respuesta |-> respuesta_de_fallo]
  ELSE IF token.userinfo = None
    THEN [user |-> user, respuesta |-> HTTPException(400)]
  ELSE IF token.userinfo[1].email # autorizado
    THEN [user |-> user, respuesta |-> HTTPException(403)]
  ELSE [user |-> token.userinfo, respuesta |-> RedirectResponse("/dashboard")]

\* the request and its response, as the browser has them
Peticion(h, entrada, respuesta) ==
  [handler |-> h, entrada |-> entrada, antes |-> session_user,
   respuesta |-> respuesta]

\* what no request of this section changes
SesionMarco ==
  UNCHANGED <<store_vars, conexion, alertas, pc, local_vars, handler,
              resultado, escrito, exitos, parciales, llamadas, entradas,
              ADMIN_EMAIL>>

\* GET /login: oauth.google.authorize_redirect redirects to Google, or fails
\* to read Google's metadata; it keeps its state under other session keys
Login ==
  /\ \E r \in {RedirectResponse("https://accounts.google.com"),
               HTTPException(500)} :
       peticion' = Peticion("login", None, r)
  /\ UNCHANGED <<session_user, cambio>>
  /\ SesionMarco

AuthCallbackDe(h, autorizado, respuesta_de_fallo) ==
  \E token \in Tokens :
    LET r == auth_callback(session_user, token, autorizado, respuesta_de_fallo)
    IN  /\ session_user' = r.user
        /\ peticion' = Peticion(h, token, r.respuesta)
        /\ cambio' = IF r.respuesta = RedirectResponse("/dashboard")
                       THEN peticion' ELSE cambio
        /\ SesionMarco

\* GET /auth of main.py
AuthCallback ==
  AuthCallbackDe("main.auth_callback", EMAIL_AUTORIZADO, HTMLResponse(400))

\* GET /auth of routes/auth.py
RoutesAuthCallback ==
  AuthCallbackDe("routes.auth.auth_callback", ADMIN_EMAIL,
                 RedirectResponse("/login?error=token_failed"))

\* GET /logout (main.py; routes/auth.py has the same): session.pop('user')
Logout ==
  /\ session_user' = None
  /\ peticion' = Peticion("logout", None, RedirectResponse("/dashboard"))
  /\ cambio' = peticion'
  /\ SesionMarco

\* the dashboard of a session: user = request.session.get('user'); without
\* one, the redirect; with one, the template with logs = [] and the user
leer_dashboard(user, contexto) ==
  IF user = None THEN RedirectResponse("/login")
  ELSE TemplateResponse("dashboard.html", contexto)

\* GET /dashboard of main.py, as defined after the session middleware
LeerDashboard ==
  /\ peticion' =
       Peticion("main.leer_dashboard", None,
                leer_dashboard(session_user,
                               [logs |-> <<>>, user |-> session_user]))
  /\ UNCHANGED <<session_user, cambio>>
  /\ SesionMarco

\* GET /dashboard of routes/dashboard.py
RoutesLeerDashboard ==
  /\ peticion' =
       Peticion("routes.dashboard.leer_dashboard", None,
                leer_dashboard(session_user,
                               [logs |-> <<>>, user |-> session_user,
                                project_name |-> "SilverNonStop Audit"]))
  /\ UNCHANGED <<session_user, cambio>>
  /\ SesionMarco

\* SELECT * FROM silvernostop_audit_log ORDER BY timestamp DESC LIMIT n
RECURSIVE logs_recientes(_, _)
logs_recientes(log, n) ==
  IF log = {} \/ n = 0 THEN <<>>
  ELSE LET r == CHOOSE x \in log : \A y \in log : y.timestamp <= x.timestamp
       IN  <<r>> \o logs_recientes(log \ {r}, n - 1)

\* GET /dashboard of main.py, as defined first, on the application that has
\* /resolver-evento: get_db_connection; conn.fetch; conn.close; the template
\* with the rows.  It does not read the session.
LeerDashboardDeLogs ==
  /\ peticion' =
       Peticion("main.leer_dashboard.logs", None,
                TemplateResponse("dashboard.html",
                  [logs |-> logs_recientes(audit_log, LimiteDashboard)]))
  /\ UNCHANGED <<session_user, cambio>>
  /\ SesionMarco

\* POST /resolver-evento/{log_id} of routes/audit.py: 401 without a session
\* user; with one, it prints and answers "ok" (its UPDATE is a comment)
RoutesResolverEvento ==
  /\ \E log_id \in 1..next_id :
       peticion' =
         Peticion("routes.audit.resolver_evento", log_id,
                  IF session_user = None THEN HTTPException(401)
                  ELSE [status_code |-> 200, location |-> "", plantilla |-> "",
                        status |-> "ok"])
  /\ UNCHANGED <<session_user, cambio>>
  /\ SesionMarco

\* the session of a browser that has not made a request
SesionInicial(admin_email) ==
  /\ session_user = None
  /\ ADMIN_EMAIL = admin_email
  /\ peticion = SinPeticion
  /\ cambio = SinPeticion

(***************************************************************************)
(* Specifications.                                                         *)
(***************************************************************************)
\* the empty table, no request in progress, and the events to submit
InitAlmacen(carga) ==
  /\ audit_log = {}
  /\ next_id = 1
  /\ reloj = 1
  /\ conexion = [p \in Procs |-> "ninguna"]
  /\ alertas = SinAlertas
  /\ pc = [p \in Procs |-> "idle"]
  /\ evento = [p \in Procs |-> SinEvento]
  /\ tabla_validada = [p \in Procs |-> ""]
  /\ hash_datos = [p \in Procs |-> ""]
  /\ existing = [p \in Procs |-> None]
  /\ evento_id = [p \in Procs |-> 0]
  /\ diag = [p \in Procs |-> SinDiag]
  /\ handler = [p \in Procs |-> ""]
  /\ resultado = [p \in Procs |-> SinResultado]
  /\ escrito = [p \in Procs |-> {}]
  /\ exitos = <<>>
  /\ parciales = 0
  /\ llamadas = 0
  /\ entradas = carga

InitCon(carga) ==
  /\ InitAlmacen(carga)
  /\ SesionInicial(ADMIN_EMAIL_por_defecto)

\* The service after /setup-sistema, its audit log empty, receiving the
\* events of Eventos, resolve requests and diagnostic requests from
\* concurrent callers, the store answering every call.
Init == InitCon(Eventos)

Ingesta(p) ==
  \/ ProcesarEvento(p)
  \/ ProcesarUpdate(p)
  \/ ProcesarInsert(p)
  \/ Responder(p)

Diagnostico(p) ==
  \/ DiagnosticoCompleto(p)
  \/ DiagSeveridad(p)
  \/ DiagCriticos(p)
  \/ DiagTablas(p)
  \/ DiagRecientes(p)

Next == \E p \in Procs : Ingesta(p) \/ ResolverEvento(p) \/ Diagnostico(p)

Spec == Init /\ [][Next]_vars

\* The same, with store calls that may raise.
IngestaFalla(p) ==
  \/ ProcesarEventoFalla(p)
  \/ ProcesarUpdateFalla(p)
  \/ ProcesarInsertFalla(p)
  \/ ProcesarInsertAlertaFalla(p)

NextFallos ==
  \/ Next
  \/ \E p \in Procs :
       \/ IngestaFalla(p)
       \/ ResolverEventoFalla(p)
       \/ DiagnosticoCompletoFalla(p)
       \/ DiagConsultaFalla(p)

SpecFallos == Init /\ [][NextFallos]_vars

\* One caller submitting one or two events of EventosTodos, each call after
\* the response to the one before, with store calls that may raise.
InitSeq == \E carga \in Cargas : InitCon(carga)

EnSerie(p) == \A q \in Procs : q # p => pc[q] = "idle"

NextSeq ==
  \E p \in Procs :
    \/ EnSerie(p) /\ ProcesarEvento(p)
    \/ EnSerie(p) /\ ProcesarEventoFalla(p)
    \/ EnSerie(p) /\ ProcesarUpdate(p)
    \/ EnSerie(p) /\ ProcesarUpdateFalla(p)
    \/ EnSerie(p) /\ ProcesarInsert(p)
    \/ EnSerie(p) /\ ProcesarInsertFalla(p)
    \/ EnSerie(p) /\ ProcesarInsertAlertaFalla(p)
    \/ EnSerie(p) /\ Responder(p)

SpecSeq == InitSeq /\ [][NextSeq]_vars

(***************************************************************************)
(* The diagnostic on a table that earlier ingestions and resolutions have  *)
(* filled.                                                                 *)
(***************************************************************************)
\* ALTA rows and CRITICA rows (of each estado_resolucion) in the table
MaxAltas == 10
MaxCriticas == 1

\* str(n) of a natural number
RECURSIVE str_int(_)
str_int(n) ==
  LET digito == <<"0", "1", "2", "3", "4", "5", "6", "7", "8", "9">>
  IN  IF n < 10 THEN digito[n + 1]
      ELSE str_int(n \div 10) \o digito[(n % 10) + 1]

\* the event of record n of Config_FEM, with the model's defaults
EventoDeRegistro(n, severidad) ==
  [ tabla_origen |-> "Config_FEM", tipo_evento |-> "FEM_Inconsistente",
    campo_afectado |-> Some("Sector"), record_id |-> Some(str_int(n)),
    severidad |-> severidad, descripcion |-> "x", datos_contexto |-> {},
    categoria_error |-> None, impacto_narrativa |-> "Sin_Impacto",
    accion_requerida |-> "Revisar manualmente" ]

\* the row that the n-th ingestion left for that event, resolved since or not
FilaDeRegistro(n, severidad, estado) ==
  [ fila_nueva(n, EventoDeRegistro(n, severidad),
               validar_tabla_existe("Config_FEM"),
               generar_hash_evento(EventoDeRegistro(n, severidad)), n)
      EXCEPT !.estado_resolucion = estado ]

\* a ALTA rows (every second one resolved), then cp pending and cr resolved
\* CRITICA rows
Almacen(a, cp, cr) ==
  { FilaDeRegistro(n, "ALTA", IF n % 2 = 0 THEN "Resuelto" ELSE "Pendiente") :
      n \in 1..a }
  \cup { FilaDeRegistro(n, "CRITICA", "Pendiente") : n \in (a + 1)..(a + cp) }
  \cup { FilaDeRegistro(n, "CRITICA", "Resuelto") :
           n \in (a + cp + 1)..(a + cp + cr) }

Almacenes ==
  { Almacen(a, cp, cr) :
      a \in 0..MaxAltas, cp \in 0..MaxCriticas, cr \in 0..MaxCriticas }

InitDiag ==
  /\ audit_log \in Almacenes
  /\ next_id = Cardinality(audit_log) + 1
  /\ reloj = Cardinality(audit_log) + 1
  /\ conexion = [p \in Procs |-> "ninguna"]
  /\ alertas = SinAlertas
  /\ pc = [p \in Procs |-> "idle"]
  /\ evento = [p \in Procs |-> SinEvento]
  /\ tabla_validada = [p \in Procs |-> ""]
  /\ hash_datos = [p \in Procs |-> ""]
  /\ existing = [p \in Procs |-> None]
  /\ evento_id = [p \in Procs |-> 0]
  /\ diag = [p \in Procs |-> SinDiag]
  /\ handler = [p \in Procs |-> ""]
  /\ resultado = [p \in Procs |-> SinResultado]
  /\ escrito = [p \in Procs |-> {}]
  /\ exitos = <<>>
  /\ parciales = 0
  /\ llamadas = 0
  /\ entradas = {}
  /\ SesionInicial(ADMIN_EMAIL_por_defecto)

\* One caller asking for the diagnostic of such a table, each call after the
\* response to the one before, with store calls that may raise.
NextDiag ==
  \E p \in Procs :
    \/ EnSerie(p) /\ DiagnosticoCompleto(p)
    \/ EnSerie(p) /\ DiagnosticoCompletoFalla(p)
    \/ EnSerie(p) /\ DiagSeveridad(p)
    \/ EnSerie(p) /\ DiagCriticos(p)
    \/ EnSerie(p) /\ DiagTablas(p)
    \/ EnSerie(p) /\ DiagRecientes(p)
    \/ EnSerie(p) /\ DiagConsultaFalla(p)
    \/ EnSerie(p) /\ Responder(p)

SpecDiag == InitDiag /\ [][NextDiag]_vars

(***************************************************************************)
(* One browser and its session, with the ingest and resolve calls of one   *)
(* caller, each after the response to the one before.                      *)
(***************************************************************************)
InitSesion ==
  /\ InitAlmacen(Eventos)
  /\ \E admin_email \in ValoresDeADMIN_EMAIL : SesionInicial(admin_email)

NextSesion ==
  \/ \E p \in Procs :
       \/ EnSerie(p) /\ ProcesarEvento(p)
       \/ EnSerie(p) /\ ProcesarUpdate(p)
       \/ EnSerie(p) /\ ProcesarInsert(p)
       \/ EnSerie(p) /\ ResolverEvento(p)
       \/ EnSerie(p) /\ Responder(p)
  \/ Login
  \/ AuthCallback
  \/ RoutesAuthCallback
  \/ Logout
  \/ LeerDashboard
  \/ RoutesLeerDashboard
  \/ LeerDashboardDeLogs
  \/ RoutesResolverEvento

SpecSesion == InitSesion /\ [][NextSesion]_vars

(***************************************************************************)
(* Properties of ingestion.                                                *)
(***************************************************************************)
\* a call of procesar_evento_auditoria that has its response
Ingerido(p) ==
  /\ pc[p] = "done"
  /\ handler[p] = "procesar_evento_auditoria"
  /\ resultado[p].status \in {"success", "duplicado_actualizado"}

\* the successful ingestions of the logical event of e
ExitosDeClave(e) ==
  Suma(exitos, { x \in DOMAIN exitos : Clave(x) = Clave(e) })

\* the four identity columns of a stored row
ClaveDeFila(r) ==
  [ tabla_origen |-> r.tabla_origen, tipo_evento |-> r.tipo_evento,
    campo_afectado |-> r.campo_afectado, record_id |-> r.record_id ]

\* C1: in every state the table holds at most one row per hash_datos value,
\* however the lookups and writes of concurrent ingest calls interleave.
C1_UnaFilaPorHash ==
  \A r1 \in audit_log : \A r2 \in audit_log :
    r1.hash_datos = r2.hash_datos => r1 = r2

\* C2: after N >= 1 ingestions of one logical event, one after another and
\* each answered, starting with no row of its hash (and none of another
\* logical event with that hash in between), the table holds exactly one row
\* of that hash, with contador_ocurrencias = N and es_recurrente = (N > 1).
C2_DedupConConteo ==
  parciales = 0 =>
    \A e \in DOMAIN exitos :
      LET h == generar_hash_evento(e)
          N == ExitosDeClave(e)
      IN  (\A x \in DOMAIN exitos :
             generar_hash_evento(x) = h => Clave(x) = Clave(e))
          => \E r \in audit_log :
               /\ FilasConHash(h) = {r}
               /\ r.contador_ocurrencias = N
               /\ r.es_recurrente = (N > 1)

\* C2 witness: one logical event ingested three times, its single row at 3
C2_Testigo ==
  /\ parciales = 0
  /\ \E e \in DOMAIN exitos :
       /\ ExitosDeClave(e) = 3
       /\ ExitosDeHash(generar_hash_evento(e)) = 3
       /\ \E r \in audit_log :
            /\ FilasConHash(generar_hash_evento(e)) = {r}
            /\ r.contador_ocurrencias = 3
            /\ r.es_recurrente

\* C3: when the concurrent ingest calls of a hash have all completed, every
\* row of that hash has contador_ocurrencias equal to the number of ingest
\* calls that mapped to the hash.
C3_SinActualizacionesPerdidas ==
  (\A p \in Procs : pc[p] = "idle") =>
    \A e \in DOMAIN exitos :
      \A r \in FilasConHash(generar_hash_evento(e)) :
        r.contador_ocurrencias = ExitosDeHash(generar_hash_evento(e))

\* C3, apart from C1: where the table has one row per hash, no increment is
\* lost.
C3_SinPerdidasConUnaFila ==
  C1_UnaFilaPorHash => C3_SinActualizacionesPerdidas

\* C4: with no concurrent calls, the first ingestion of a hash answers
\* "success" with the id and the stored categoria_error of the new row, and
\* the k-th (k >= 2) answers "duplicado_actualizado" with the id of that row
\* and contador_ocurrencias = k.
C4_ResultadosEnSerie ==
  parciales = 0 =>
    \A p \in Procs :
      Ingerido(p) =>
        LET k == ExitosDeHash(hash_datos[p])
        IN  \E r \in audit_log :
              /\ FilasConHash(hash_datos[p]) = {r}
              /\ resultado[p].evento_id = r.id
              /\ IF k = 1
                 THEN /\ resultado[p].status = "success"
                      /\ resultado[p].categoria_asignada = r.categoria_error
                 ELSE /\ resultado[p].status = "duplicado_actualizado"
                      /\ resultado[p].contador_ocurrencias = k

\* C4 witness: the third ingestion of a hash has answered with count 3
C4_Testigo ==
  /\ parciales = 0
  /\ \E p \in Procs :
       /\ Ingerido(p)
       /\ resultado[p].status = "duplicado_actualizado"
       /\ resultado[p].contador_ocurrencias = 3
       /\ ExitosDeHash(hash_datos[p]) = 3

\* C5: the contador_ocurrencias a "duplicado_actualizado" response carries
\* is the one the row holds right after the call's own UPDATE, also when
\* other ingest calls of the same hash run concurrently.
C5_ContadorDevuelto ==
  \A p \in Procs :
    (Ingerido(p) /\ resultado[p].status = "duplicado_actualizado") =>
      \A r \in escrito[p] :
        resultado[p].contador_ocurrencias = r.contador_ocurrencias

\* C6: in every state every row has contador_ocurrencias >= 1 and has
\* es_recurrente exactly when contador_ocurrencias > 1, whatever the
\* interleaving of ingest, resolve and diagnostic calls.
C6_RecurrenteSiiContadorMayorQueUno ==
  \A r \in audit_log :
    /\ r.contador_ocurrencias >= 1
    /\ r.es_recurrente <=> (r.contador_ocurrencias > 1)

\* C6 witness: a row counted twice and then resolved
C6_Testigo ==
  \E r \in audit_log :
    /\ r.contador_ocurrencias = 2
    /\ r.es_recurrente
    /\ r.estado_resolucion = "Resuelto"

\* C7: two events with the same four key fields have the same hash whatever
\* their other fields, so the second one ingested is answered as a duplicate
\* of the first and the table keeps one row for both.
C7_IdentidadIgnoraNoClaves ==
  /\ \A a \in entradas : \A b \in entradas :
       Clave(a) = Clave(b) => generar_hash_evento(a) = generar_hash_evento(b)
  /\ \A p \in Procs :
       (Ingerido(p) /\ resultado[p].status = "success") =>
         \A e \in DOMAIN exitos : Clave(e) = Clave(evento[p]) => e = evento[p]
  /\ \A a \in DOMAIN exitos : \A b \in DOMAIN exitos :
       Clave(a) = Clave(b) =>
         /\ FilasConHash(generar_hash_evento(a)) =
              FilasConHash(generar_hash_evento(b))
         /\ Cardinality(FilasConHash(generar_hash_evento(a))) = 1

\* C7 witness: an event answered as a duplicate of an earlier one that has
\* the same key and differs in every other field
C7_Testigo ==
  \E p \in Procs :
    /\ Ingerido(p)
    /\ resultado[p].status = "duplicado_actualizado"
    /\ \E e \in DOMAIN exitos :
         /\ Clave(e) = Clave(evento[p])
         /\ e.descripcion # evento[p].descripcion
         /\ e.severidad # evento[p].severidad
         /\ e.datos_contexto # evento[p].datos_contexto
         /\ e.categoria_error # evento[p].categoria_error
         /\ e.impacto_narrativa # evento[p].impacto_narrativa
         /\ e.accion_requerida # evento[p].accion_requerida
         /\ Cardinality(audit_log) = 1

\* C8: an event is counted as a duplicate only on a row whose tipo_evento,
\* campo_afectado and record_id are its own and whose tabla_origen is its
\* resolved table: events that differ in a key field are never taken for the
\* same event.
C8_IdentidadExigeLasCuatro ==
  \A p \in Procs :
    (Ingerido(p) /\ resultado[p].status = "duplicado_actualizado") =>
      \A r \in escrito[p] :
        /\ r.tipo_evento = evento[p].tipo_evento
        /\ r.campo_afectado = evento[p].campo_afectado
        /\ r.record_id = evento[p].record_id
        /\ r.tabla_origen =
             IF evento[p].tabla_origen \in tablas_validas
             THEN evento[p].tabla_origen ELSE "Sistema_General"

\* C9: the hash is a function of the stored tabla_origen: no two rows have
\* the same (tabla_origen, tipo_evento, campo_afectado, record_id).
C9_HashDeLaTablaNormalizada ==
  \A r1 \in audit_log : \A r2 \in audit_log :
    ClaveDeFila(r1) = ClaveDeFila(r2) => r1 = r2

\* C10: a new row's tabla_origen is the caller's value when that is one of
\* the seven known tables and "Sistema_General" otherwise; the resolution
\* has a result for every input and every row's tabla_origen is a known
\* table.
C10_ResolucionDeTabla ==
  /\ Cardinality(tablas_validas) = 7
  /\ \A e \in entradas : validar_tabla_existe(e.tabla_origen) \in tablas_validas
  /\ \A r \in audit_log : r.tabla_origen \in tablas_validas
  /\ \A p \in Procs :
       (Ingerido(p) /\ resultado[p].status = "success") =>
         \A r \in escrito[p] :
           r.tabla_origen =
             IF evento[p].tabla_origen \in tablas_validas
             THEN evento[p].tabla_origen ELSE "Sistema_General"

\* C10 witness: an event of an unknown table stored under "Sistema_General",
\* beside a row that kept the caller's known table
C10_Testigo ==
  /\ \E p \in Procs :
       /\ Ingerido(p)
       /\ resultado[p].status = "success"
       /\ evento[p].tabla_origen \notin tablas_validas
       /\ \E r \in escrito[p] : r.tabla_origen = "Sistema_General"
  /\ \E r \in audit_log : r.tabla_origen = "Config_FEM"

(***************************************************************************)
(* Properties of the stored category, of resolution and of the diagnostic. *)
(***************************************************************************)
\* the category the fallback chain of the documentation gives
CategoriaEsperada(categoria, tipo, tabla_resuelta) ==
  IF categoria \notin {None, Some("")} THEN categoria[1]
  ELSE IF tipo \in DOMAIN mapeo_tipo THEN mapeo_tipo[tipo]
  ELSE IF tabla_resuelta \in DOMAIN mapeo_tabla THEN mapeo_tabla[tabla_resuelta]
  ELSE "Integridad_Datos"

\* C11: a new row's categoria_error is the caller's when one is set, else
\* the one mapped from tipo_evento, else the one mapped from the resolved
\* table, else "Integridad_Datos"; it is never empty.
C11_CadenaDeCategoria ==
  /\ llamadas = 0 =>
       /\ \A t \in tablas_validas \cup {"Tabla_X"} :
            \A tp \in DOMAIN mapeo_tipo \cup {"FEM"} :
              determinar_categoria_automatica(t, tp) =
                CategoriaEsperada(None, tp, t)
       /\ \A e \in entradas : \A c \in {None, Some(""), Some("Manual")} :
            categoria_asignada([e EXCEPT !.categoria_error = c],
                               validar_tabla_existe(e.tabla_origen)) # ""
  /\ \A p \in Procs :
       (Ingerido(p) /\ resultado[p].status = "success") =>
         \A r \in escrito[p] :
           r.categoria_error =
             CategoriaEsperada(evento[p].categoria_error,
                               evento[p].tipo_evento, r.tabla_origen)
  /\ \A r \in audit_log : r.categoria_error # ""

\* C11 witness: a row that kept the caller's category beside a row whose
\* category came from its table, its tipo_evento having none
C11_Testigo ==
  /\ \E r \in audit_log :
       /\ r.categoria_error = "Manual"
       /\ r.tipo_evento \in DOMAIN mapeo_tipo
  /\ \E p \in Procs :
       /\ Ingerido(p)
       /\ resultado[p].status = "success"
       /\ evento[p].categoria_error = None
       /\ evento[p].tipo_evento \notin DOMAIN mapeo_tipo
       /\ \E r \in escrito[p] :
            /\ r.tabla_origen \in DOMAIN mapeo_tabla
            /\ r.categoria_error = mapeo_tabla[r.tabla_origen]

\* a call of resolver_evento that has answered with success
Resuelto(p) ==
  /\ pc[p] = "done"
  /\ handler[p] = "resolver_evento"
  /\ resultado[p].status = "success"

\* C12: resolver_evento of an id that no row has does not answer with
\* success: a success answer means the UPDATE matched a row.
C12_ResolverDesconocido ==
  \A p \in Procs : Resuelto(p) => escrito[p] # {}

\* the step in which a call of resolver_evento by p runs and answers with
\* success
PasoResolver(p) ==
  /\ pc[p] = "idle"
  /\ pc'[p] = "done"
  /\ handler'[p] = "resolver_evento"
  /\ resultado'[p].status = "success"

\* C13: resolver_evento on a 'Pendiente' row sets it to 'Resuelto' and
\* answers with success; on a row already 'Resuelto' it answers with success
\* and changes nothing in the table, updated_at included.
C13_ResolverIdempotente ==
  [][\A p \in Procs :
       PasoResolver(p) =>
         \A r \in audit_log :
           r.id = evento_id'[p] =>
             IF r.estado_resolucion = "Pendiente"
             THEN \E r2 \in audit_log' :
                    r2.id = r.id /\ r2.estado_resolucion = "Resuelto"
             ELSE audit_log' = audit_log]_vars

\* the step in which a call of resolver_evento by p runs
LlamadaResolver(p) ==
  /\ pc[p] = "idle"
  /\ pc'[p] = "done"
  /\ handler'[p] = "resolver_evento"

\* C14: every row is created 'Pendiente'; a row's estado_resolucion changes
\* only in a resolver_evento call on its id, and only from 'Pendiente' to
\* 'Resuelto'; no ingest call (a duplicate of a resolved row included) and
\* no diagnostic call changes it, and no row goes back to 'Pendiente'.
C14_CicloDeResolucion ==
  [][/\ \A r2 \in audit_log' :
          (\A r \in audit_log : r.id # r2.id) =>
            r2.estado_resolucion = "Pendiente"
     /\ \A r \in audit_log :
          /\ \E r2 \in audit_log' : r2.id = r.id
          /\ \A r2 \in audit_log' :
               (r2.id = r.id /\ r2.estado_resolucion # r.estado_resolucion) =>
                 /\ r.estado_resolucion = "Pendiente"
                 /\ r2.estado_resolucion = "Resuelto"
                 /\ \E p \in Procs :
                      LlamadaResolver(p) /\ evento_id'[p] = r.id]_vars

\* C14 witness: a duplicate has been counted on a row that was resolved
\* before, and the row is still 'Resuelto'
C14_Testigo ==
  \E p \in Procs :
    /\ Ingerido(p)
    /\ resultado[p].status = "duplicado_actualizado"
    /\ \E r \in escrito[p] :
         /\ r.estado_resolucion = "Resuelto"
         /\ r \in audit_log

\* a call of diagnostico_completo that has its response
Diagnosticado(p) ==
  /\ pc[p] = "done"
  /\ handler[p] = "diagnostico_completo"
  /\ resultado[p].status = "diagnostico"

\* the health the documentation derives from the rows of a table
SaludEsperada(log) ==
  IF \E r \in log : r.severidad = "CRITICA" /\ r.estado_resolucion = "Pendiente"
    THEN "CRITICO"
  ELSE IF Cardinality({ r \in log : r.severidad = "ALTA" }) > 5
    THEN "ATENCION"
  ELSE "SALUDABLE"

\* C15: the diagnostic reports "CRITICO" exactly when a row is CRITICA and
\* 'Pendiente'; otherwise "ATENCION" exactly when more than 5 rows are ALTA
\* (resolved or not); otherwise "SALUDABLE": 5 ALTA rows and no pending
\* CRITICA row give "SALUDABLE", 6 give "ATENCION".
C15_EstadoDelSistema ==
  \A p \in Procs :
    Diagnosticado(p) => resultado[p].estado_sistema = SaludEsperada(audit_log)

\* C15 witness: 6 ALTA rows, half of them resolved, and one resolved CRITICA
\* row reported as "ATENCION"
C15_Testigo ==
  \E p \in Procs :
    /\ Diagnosticado(p)
    /\ resultado[p].estado_sistema = "ATENCION"
    /\ Cardinality({ r \in audit_log : r.severidad = "ALTA" }) = 6
    /\ \E r \in audit_log : r.severidad = "ALTA" /\ r.estado_resolucion = "Resuelto"
    /\ \E r \in audit_log : r.severidad = "CRITICA"

\* successful ingestions of CRITICA events
ExitosCriticos ==
  Suma(exitos, { e \in DOMAIN exitos : e.severidad = "CRITICA" })

\* C16: every successful ingestion of a CRITICA event sends the alert to the
\* log channel, on the new-event branch and on the duplicate branch alike,
\* and no other ingestion sends it.
C16_AlertaEnCadaCritica ==
  alertas.escritas + alertas.perdidas = ExitosCriticos

\* C17: when the log channel fails to write the alert, the ingest call
\* still answers with its normal result on the row it wrote, never with an
\* error.
C17_AlertaFallidaNoFallaLaIngesta ==
  [][\A p \in Procs :
       (pc[p] # pc'[p] /\ alertas'.perdidas > alertas.perdidas) =>
         /\ pc'[p] = "done"
         /\ resultado'[p].status \in {"success", "duplicado_actualizado"}
         /\ escrito'[p] # {}
         /\ escrito'[p] \subseteq audit_log'
         /\ exitos' = Anotar(exitos, evento[p])]_vars

\* C17 witness: the only call so far, of a CRITICA event, has its "success"
\* response though its alert was not written
C17_Testigo ==
  /\ llamadas = 1
  /\ alertas = [escritas |-> 0, perdidas |-> 1]
  /\ \E p \in Procs :
       /\ Ingerido(p)
       /\ resultado[p].status = "success"
       /\ evento[p].severidad = "CRITICA"
       /\ \E r \in audit_log : r.id = resultado[p].evento_id

\* C18: an ingest call that ends with an error has written nothing: no row
\* inserted, no counter incremented.
C18_FalloSinEstadoParcial ==
  \A p \in Procs :
    (/\ pc[p] = "done"
     /\ handler[p] = "procesar_evento_auditoria"
     /\ resultado[p] = Error500) => escrito[p] = {}

\* a step of a call of diagnostico_completo by p, up to its response or its
\* error
PasoDiagnostico(p) ==
  /\ pc[p] # pc'[p]
  /\ handler'[p] = "diagnostico_completo"

\* C19: no step of a diagnostic call, answered or failed, adds, removes or
\* modifies a row of the table.
C19_DiagnosticoSoloLee ==
  [][(\E p \in Procs : PasoDiagnostico(p)) =>
       /\ audit_log' = audit_log
       /\ next_id' = next_id]_vars

\* C19 witness: the second diagnostic call on a table of 8 rows, some of
\* them resolved, has its response, and the table is one of the initial ones
C19_Testigo ==
  /\ llamadas = 2
  /\ audit_log \in Almacenes
  /\ Cardinality(audit_log) = 8
  /\ \E r \in audit_log : r.estado_resolucion = "Resuelto"
  /\ \E p \in Procs :
       /\ Diagnosticado(p)
       /\ resultado[p].total_eventos = 8

\* the step in which the UPDATE of a duplicate ingest by p runs
PasoDuplicado(p) ==
  /\ pc[p] = "execute_update"
  /\ pc'[p] = "done"

\* r2 is r but for its count, its recurrence flag and updated_at
SoloRecontada(r, r2) ==
  [r2 EXCEPT !.contador_ocurrencias = r.contador_ocurrencias,
             !.es_recurrente = r.es_recurrente,
             !.updated_at = r.updated_at] = r

\* r2 is r but for its estado_resolucion and updated_at
SoloResuelta(r, r2) ==
  [r2 EXCEPT !.estado_resolucion = r.estado_resolucion,
             !.updated_at = r.updated_at] = r

\* C20: a duplicate ingest changes only contador_ocurrencias, es_recurrente
\* and updated_at of the row it matched, and resolver_evento only
\* estado_resolucion and updated_at of the row of its id; the id, hash,
\* table, type, severity, description, category and context of a row stay
\* those of its first occurrence, and no other row is touched.
C20_MarcoDeDuplicadoYResolver ==
  [][\A r \in audit_log :
       \E r2 \in audit_log' :
         /\ r2.id = r.id
         /\ r2.hash_datos = r.hash_datos
         /\ r2.tabla_origen = r.tabla_origen
         /\ r2.tipo_evento = r.tipo_evento
         /\ r2.severidad = r.severidad
         /\ r2.descripcion = r.descripcion
         /\ r2.categoria_error = r.categoria_error
         /\ r2.datos_contexto = r.datos_contexto
         /\ r2 # r =>
              /\ \E p \in Procs :
                   \/ /\ PasoDuplicado(p)
                      /\ existing[p][1].id = r.id
                      /\ SoloRecontada(r, r2)
                   \/ /\ LlamadaResolver(p)
                      /\ evento_id'[p] = r.id
                      /\ SoloResuelta(r, r2)
              /\ audit_log' = (audit_log \ {r}) \cup {r2}]_vars

\* C20 witness: a row created at time 1, counted again for an event that
\* differs from the first in every non-key field, and then resolved by a
\* call that has its response: it is the first occurrence's row but for its
\* count, its flag, its estado_resolucion and updated_at
C20_Testigo ==
  \E p \in Procs :
    /\ Resuelto(p)
    /\ \E r \in escrito[p] :
         /\ r \in audit_log
         /\ r.contador_ocurrencias = 2
         /\ r.timestamp = 1
         /\ r.updated_at = 3
         /\ \E e \in DOMAIN exitos :
              /\ [r EXCEPT !.contador_ocurrencias = 1, !.es_recurrente = FALSE,
                           !.estado_resolucion = "Pendiente", !.updated_at = 1]
                   = fila_nueva(r.id, e, validar_tabla_existe(e.tabla_origen),
                                generar_hash_evento(e), 1)
              /\ \E e2 \in DOMAIN exitos :
                   /\ Clave(e2) = Clave(e)
                   /\ e2.descripcion # e.descripcion
                   /\ e2.severidad # e.severidad

(***************************************************************************)
(* Properties of concurrent calls.                                         *)
(***************************************************************************)
\* C21: when two ingest calls of events with different hash_datos have both
\* been answered, and each is the only successful ingestion of its hash,
\* then however their statements interleaved both were answered "success"
\* (created), and the table holds exactly one row of each hash: the row the
\* call itself inserted (but for a later resolution), with
\* contador_ocurrencias 1 and es_recurrente false.
C21_HashesIndependientes ==
  \A p \in Procs : \A q \in Procs \ {p} :
    (/\ Ingerido(p) /\ Ingerido(q)
     /\ hash_datos[p] # hash_datos[q]
     /\ ExitosDeHash(hash_datos[p]) = 1
     /\ ExitosDeHash(hash_datos[q]) = 1)
    => /\ resultado[p].status = "success"
       /\ \E r \in audit_log :
            /\ FilasConHash(hash_datos[p]) = {r}
            /\ r.id = resultado[p].evento_id
            /\ r.id # resultado[q].evento_id
            /\ r.contador_ocurrencias = 1
            /\ ~r.es_recurrente
            /\ \E w \in escrito[p] : SoloResuelta(w, r)

\* C21 witness: two ingest calls of different hashes that overlapped (the
\* call that arrived second inserted first) have both been answered
C21_Testigo ==
  /\ llamadas = 2
  /\ Ingerido(1) /\ Ingerido(2)
  /\ hash_datos[1] # hash_datos[2]
  /\ resultado[1].status = "success" /\ resultado[1].evento_id = 2
  /\ resultado[2].status = "success" /\ resultado[2].evento_id = 1
  /\ Cardinality(audit_log) = 2


\* C22: the eventos_recientes of a diagnostic response lists
\* min(10, number of rows) rows of the table, each once, by timestamp
\* descending, and every row of the table it leaves out has a timestamp no
\* later than that of every row it lists.
C22_ListadoReciente ==
  \A p \in Procs :
    Diagnosticado(p) =>
      LET L == resultado[p].eventos_recientes
          n == Cardinality(audit_log)
          S == { r \in audit_log :
                   \E i \in 1..Len(L) : L[i] = columnas_recientes(r) }
      IN  /\ Len(L) = IF n < 10 THEN n ELSE 10
          /\ \A i \in 1..Len(L) :
               \E r \in audit_log : L[i] = columnas_recientes(r)
          /\ Cardinality(S) = Len(L)
          /\ \A i \in 1..Len(L) : \A j \in 1..Len(L) :
               i < j => L[i].timestamp >= L[j].timestamp
          /\ \A r \in audit_log \ S : \A x \in S : r.timestamp <= x.timestamp

\* C22 witness: the diagnostic of a table of 12 rows lists the 10 latest,
\* from the row of time 12 down to the row of time 3
C22_Testigo ==
  \E p \in Procs :
    /\ Diagnosticado(p)
    /\ Cardinality(audit_log) = 12
    /\ Len(resultado[p].eventos_recientes) = 10
    /\ resultado[p].eventos_recientes[1].timestamp = 12
    /\ resultado[p].eventos_recientes[10].timestamp = 3

\* C23: every diagnostic response is a snapshot of one state of the table:
\* its total_eventos is the sum of its eventos_por_severidad, its
\* criticos_pendientes is at most its count of CRITICA rows, and its
\* tablas_monitoreadas are those of the rows counted (none when no row is
\* counted, at most one per row otherwise), also when ingest and resolve
\* calls run between the queries of the diagnostic.
C23_DiagnosticoEsUnaInstantanea ==
  \A p \in Procs :
    Diagnosticado(p) =>
      LET d == resultado[p]
      IN  /\ d.total_eventos =
               Suma(d.eventos_por_severidad, DOMAIN d.eventos_por_severidad)
          /\ d.criticos_pendientes <= get_or_0(d.eventos_por_severidad, "CRITICA")
          /\ (d.tablas_monitoreadas = {}) <=> (d.total_eventos = 0)
          /\ Cardinality(d.tablas_monitoreadas) <= d.total_eventos

\* a call of procesar_evento_auditoria by p between its arrival and its
\* response or error
IngestaEnCurso(p) ==
  /\ handler[p] = "procesar_evento_auditoria"
  /\ pc[p] \notin {"idle", "done"}

\* SELECT SUM(contador_ocurrencias) FROM silvernostop_audit_log
RECURSIVE SumaDeContadores(_)
SumaDeContadores(log) ==
  IF log = {} THEN 0
  ELSE LET r == CHOOSE x \in log : TRUE
       IN  r.contador_ocurrencias + SumaDeContadores(log \ {r})

\* C24: whenever no ingest call is in progress, the contador_ocurrencias of
\* all rows add up to the number of ingest calls answered with success since
\* the table was empty, however ingest and resolve calls interleaved and
\* whether or not they had the same hash.
C24_ConservacionDeOcurrencias ==
  (\A p \in Procs : ~IngestaEnCurso(p))
    => SumaDeContadores(audit_log) = Suma(exitos, DOMAIN exitos)

\* C25: when an ingest, resolve or diagnostic call has its response or its
\* error, the connection it opened is closed: no handler ends, on a success
\* path or after a failed statement, with its connection still open.
C25_ConexionLiberada ==
  \A p \in Procs : pc[p] = "done" => conexion[p] # "abierta"

(***************************************************************************)
(* Properties of the session.                                              *)
(***************************************************************************)
CallbacksDeAuth == {"main.auth_callback", "routes.auth.auth_callback"}
Dashboards ==
  {"main.leer_dashboard", "routes.dashboard.leer_dashboard",
   "main.leer_dashboard.logs"}

\* the email the auth callback h lets in
EmailAutorizadoDe(h) ==
  IF h = "main.auth_callback" THEN EMAIL_AUTORIZADO ELSE ADMIN_EMAIL

\* the auth callback q got a token with the userinfo of the authorized email
TokenDelAdministrador(q) ==
  /\ ~q.entrada.falla
  /\ q.entrada.userinfo # None
  /\ q.entrada.userinfo[1].email = EmailAutorizadoDe(q.handler)

\* the session holds a user only if the last request that wrote it was an
\* auth callback with the token of the authorized email; an auth callback
\* with any other token leaves the session as it was, without a user if it
\* had none; logout leaves it without a user
SesionSoloDelAdministrador ==
  /\ session_user # None =>
       /\ cambio.handler \in CallbacksDeAuth
       /\ TokenDelAdministrador(cambio)
       /\ session_user = cambio.entrada.userinfo
  /\ (peticion.handler \in CallbacksDeAuth /\ ~TokenDelAdministrador(peticion))
       => /\ session_user = peticion.antes
          /\ peticion.respuesta.status_code # 200
          /\ peticion.respuesta.location # "/dashboard"
  /\ peticion.handler = "logout" => session_user = None

\* a dashboard request without a session user is redirected to /login and
\* renders nothing
DashboardExigeSesion ==
  (peticion.handler \in Dashboards /\ peticion.antes = None)
    => peticion.respuesta = RedirectResponse("/login")

\* C26: after any sequence of login, auth-callback, logout and dashboard
\* requests the session holds a user only if the last request that changed
\* it was an auth callback whose token had the userinfo of the authorized
\* email; a callback with a failed exchange, no userinfo or another email,
\* and logout, leave it without a user; and a dashboard request without a
\* session user is redirected to /login and renders nothing.
C26_InvarianteDeSesion ==
  /\ SesionSoloDelAdministrador
  /\ DashboardExigeSesion

\* C27: a resolve request made while the session holds no user is answered
\* 401 and changes no row; a row becomes 'Resuelto' only in a step taken
\* while the session holds a user.
C27_ResolverExigeSesion ==
  [][/\ \A p \in Procs :
          (LlamadaResolver(p) /\ session_user = None)
            => /\ resultado'[p] = [status |-> "error", status_code |-> 401]
               /\ audit_log' = audit_log
     /\ (/\ peticion' # peticion
         /\ peticion'.handler = "routes.audit.resolver_evento"
         /\ session_user = None)
          => /\ peticion'.respuesta = HTTPException(401)
             /\ audit_log' = audit_log
     /\ (\E r \in audit_log : \E r2 \in audit_log' :
           /\ r2.id = r.id
           /\ r.estado_resolucion # "Resuelto"
           /\ r2.estado_resolucion = "Resuelto")
          => session_user # None]_vars

=============================================================================
